---------------------------- MODULE Spec2Model ----------------------------
(***************************************************************************)
(* Model of the animation timeline engine of macroquad-tiled-redux         *)
(* (src/src/animation_controller.rs): AnimationInstance, its compression   *)
(* and the AnimationController queue with its sampling functions.          *)
(*                                                                         *)
(* Time.  coarsetime's Instant and Duration are 64-bit tick counts; the    *)
(* code only adds, subtracts, multiplies by an integer and divides by an   *)
(* integer (truncating).  The model keeps exactly that integer arithmetic  *)
(* on ticks, with small tick values.                                       *)
(*                                                                         *)
(* Positions.  movement and start_position are (f32, f32).  The model      *)
(* carries IEEE-754 binary32 values (24-bit significand, round to nearest, *)
(* ties to even) as records [k, s, m, e]:                                  *)
(*     k = "num"  : (-1)^s * m * 2^e with 2^23 <= m < 2^24                 *)
(*     k = "zero" : signed zero,  k = "inf" : signed infinity,             *)
(*     k = "nan"  : not a number.                                          *)
(* The exponent range is not limited: every value of the model stays far   *)
(* from the overflow and subnormal ranges of binary32.                     *)
(***************************************************************************)
EXTENDS Integers, Sequences, FiniteSets, TLC

(***************************************************************************)
(* binary32 arithmetic                                                     *)
(***************************************************************************)
MantBits == 24

FZero(s) == [k |-> "zero", s |-> s, m |-> 0, e |-> 0]
FInf(s)  == [k |-> "inf",  s |-> s, m |-> 0, e |-> 0]
FNaN     == [k |-> "nan",  s |-> 0, m |-> 0, e |-> 0]

\* Number of significant bits of n (0 for n = 0), n < 2^30.
BitLen(n) == CHOOSE b \in 0..30 : n < 2^b /\ (b = 0 \/ 2^(b-1) <= n)

\* sig has more than MantBits bits: the low n bits are dropped and the rest
\* is rounded up when they exceed half a unit, or equal it with sticky set
\* or an odd kept part.
RoundShift(s, sig, e, sticky, n) ==
    LET q    == sig \div 2^n
        r    == sig % 2^n
        half == 2^(n-1)
        up   == r > half \/ (r = half /\ (sticky \/ q % 2 = 1))
        q1   == IF up THEN q + 1 ELSE q
    IN IF q1 = 2^MantBits
       THEN [k |-> "num", s |-> s, m |-> 2^(MantBits-1), e |-> e + n + 1]
       ELSE [k |-> "num", s |-> s, m |-> q1, e |-> e + n]

\* Normalises sig, a number of bl bits, to MantBits bits.
RoundBits(s, sig, e, sticky, bl) ==
    IF bl <= MantBits
    THEN [k |-> "num", s |-> s, m |-> sig * 2^(MantBits - bl),
          e |-> e - (MantBits - bl)]
    ELSE RoundShift(s, sig, e, sticky, bl - MantBits)

\* Rounds the exact value (-1)^s * (sig + f) * 2^e, where 0 <= f < 1 and
\* f > 0 iff sticky, to the nearest binary32 (ties to even).
RoundPack(s, sig, e, sticky) ==
    IF sig = 0 THEN FZero(s) ELSE RoundBits(s, sig, e, sticky, BitLen(sig))

\* `n as f32` for an unsigned integer n.
FromNat(n) == RoundPack(0, n, 0, FALSE)

\* An f32 literal with an integer value.
FromInt(i) == IF i >= 0 THEN RoundPack(0, i, 0, FALSE) ELSE RoundPack(1, -i, 0, FALSE)

FNeg(a) == IF a.k = "nan" THEN a ELSE [a EXCEPT !.s = 1 - a.s]

\* |a| >= |b| for two "num" values.
MagGeq(a, b) == a.e > b.e \/ (a.e = b.e /\ a.m >= b.m)

\* big + small for two "num" values with |big| >= |small|: the smaller
\* operand is aligned with three extra bits (guard, round, sticky) before
\* the exact integer sum is rounded.
AddOrdered(big, small) ==
    LET d     == big.e - small.e
        A     == big.m * 8
        B0    == IF d > 27 THEN 0 ELSE (small.m * 8) \div 2^d
        lost  == IF d > 27 THEN TRUE ELSE (small.m * 8) % 2^d # 0
        B     == IF lost /\ B0 % 2 = 0 THEN B0 + 1 ELSE B0
    IN IF big.s = small.s
       THEN RoundPack(big.s, A + B, big.e - 3, FALSE)
       ELSE IF A = B THEN FZero(0)
            ELSE RoundPack(big.s, A - B, big.e - 3, FALSE)

\* a + b for two "num" values.
AddNum(a, b) == IF MagGeq(a, b) THEN AddOrdered(a, b) ELSE AddOrdered(b, a)

FAdd(a, b) ==
    IF a.k = "nan" \/ b.k = "nan" THEN FNaN
    ELSE IF a.k = "inf"
         THEN IF b.k = "inf" /\ b.s # a.s THEN FNaN ELSE a
    ELSE IF b.k = "inf" THEN b
    ELSE IF a.k = "zero"
         THEN IF b.k = "zero"
              THEN (IF a.s = 1 /\ b.s = 1 THEN FZero(1) ELSE FZero(0))
              ELSE b
    ELSE IF b.k = "zero" THEN a
    ELSE AddNum(a, b)

FSub(a, b) == FAdd(a, FNeg(b))

\* a * b for two "num" values: the 48-bit product of the significands is
\* formed from 12-bit halves and its top 28 bits are rounded.
MulNum(a, b) ==
    LET a1  == a.m \div 4096
        a0  == a.m % 4096
        b1  == b.m \div 4096
        b0  == b.m % 4096
        p00 == a0 * b0
        p01 == a0 * b1 + a1 * b0
        p11 == a1 * b1
        lo  == p00 + (p01 % 4096) * 4096
        lo24 == lo % 2^24
        hi  == p11 + (p01 \div 4096) + (lo \div 2^24)
        sig == hi * 16 + (lo24 \div 2^20)
        st  == lo24 % 2^20 # 0
        s   == IF a.s = b.s THEN 0 ELSE 1
    IN RoundPack(s, sig, a.e + b.e + 20, st)

FMul(a, b) ==
    LET s == IF a.s = b.s THEN 0 ELSE 1 IN
    IF a.k = "nan" \/ b.k = "nan" THEN FNaN
    ELSE IF a.k = "inf"
         THEN IF b.k = "zero" THEN FNaN ELSE FInf(s)
    ELSE IF b.k = "inf"
         THEN IF a.k = "zero" THEN FNaN ELSE FInf(s)
    ELSE IF a.k = "zero" \/ b.k = "zero" THEN FZero(s)
    ELSE MulNum(a, b)

\* a / b for two "num" values: floor(a.m * 2^28 / b.m) by long division,
\* seven bits at a time, then rounded.
DivNum(a, b) ==
    LET q1 == (a.m * 128) \div b.m
        r1 == (a.m * 128) % b.m
        q2 == (r1 * 128) \div b.m
        r2 == (r1 * 128) % b.m
        q3 == (r2 * 128) \div b.m
        r3 == (r2 * 128) % b.m
        q4 == (r3 * 128) \div b.m
        r4 == (r3 * 128) % b.m
        Q  == ((q1 * 128 + q2) * 128 + q3) * 128 + q4
        s  == IF a.s = b.s THEN 0 ELSE 1
    IN RoundPack(s, Q, a.e - b.e - 28, r4 # 0)

FDiv(a, b) ==
    LET s == IF a.s = b.s THEN 0 ELSE 1 IN
    IF a.k = "nan" \/ b.k = "nan" THEN FNaN
    ELSE IF a.k = "inf"
         THEN IF b.k = "inf" THEN FNaN ELSE FInf(s)
    ELSE IF b.k = "inf" THEN FZero(s)
    ELSE IF b.k = "zero"
         THEN IF a.k = "zero" THEN FNaN ELSE FInf(s)
    ELSE IF a.k = "zero" THEN FZero(s)
    ELSE DivNum(a, b)

\* f32::round: to the nearest integer, halves away from zero.
FRound(a) ==
    IF a.k # "num" \/ a.e >= 0 THEN a
    ELSE IF -a.e > MantBits THEN FZero(a.s)
    ELSE LET n  == -a.e
             ip == a.m \div 2^n
             fr == a.m % 2^n
             r  == IF fr >= 2^(n-1) THEN ip + 1 ELSE ip
         IN RoundPack(a.s, r, 0, FALSE)

\* The == of f32: NaN differs from everything, the two zeros are equal.
FEq(a, b) ==
    /\ a.k # "nan"
    /\ b.k # "nan"
    /\ \/ a.k = "zero" /\ b.k = "zero"
       \/ a = b


(***************************************************************************)
(* Bounds and inputs                                                       *)
(***************************************************************************)
\* Instants handed to the operations are ticks in 0..MaxTime.
MaxTime == 5
\* add_animation is only called while fewer than MaxQueue instances wait.
MaxQueue == 2
\* Ticks in one second (Duration::from_secs); coarsetime uses 2^32.
TicksPerSec == 2
\* add_idle_animation is only called while fewer than MaxIdle idle instances
\* are stored.
MaxIdle == 2

Times == 0..MaxTime

Frame(t, d) == [tile_id |-> t, duration |-> d]

\* mock_template: a template is its frames and its max_compression; the
\* fields the controller never reads (name, gid, ordering, blocks_turn,
\* cancel_frame) are left out.
Template(frames, mc) == [frames |-> frames, max_compression |-> mc]

Templates ==
    { Template(<<Frame(1, 1), Frame(2, 2)>>, 100),
      Template(<<Frame(5, 2), Frame(6, 4)>>, 50),
      Template(<<Frame(9, 2), Frame(10, 3)>>, 40),
      Template(<<Frame(13, 2)>>, 0) }

\* The idle templates: one that plays two frames, one whose only frame has
\* no duration.
IdleTemplates ==
    { Template(<<Frame(101, 1), Frame(102, 1)>>, 100),
      Template(<<Frame(105, 0)>>, 100) }
\* The idle intervals, the seconds handed to add_idle_animation.
IdleIntervals == { 0, 1 }

Vec(x, y) == <<FromInt(x), FromInt(y)>>

Movements      == { Vec(100, 0), Vec(3, -1) }
StartPositions == { Vec(300, 10) }

(***************************************************************************)
(* AnimationInstance                                                       *)
(***************************************************************************)
RECURSIVE SumDurations(_)
\* frames.iter().map(|it| it.duration.as_ticks()).sum()
SumDurations(frames) ==
    IF frames = <<>> THEN 0
    ELSE Head(frames).duration + SumDurations(Tail(frames))

\* AnimationInstance::new
InstanceNew(start_time, template, movement, start_position) ==
    [ animation_start |-> start_time,
      frames          |-> template.frames,
      duration        |-> SumDurations(template.frames),
      movement        |-> movement,
      start_position  |-> start_position,
      max_compression |-> template.max_compression,
      is_compressed   |-> FALSE ]

RECURSIVE CompressFrames_FullStraddle(_, _, _, _)
\* A frame loop that shrinks the straddled frame from its full duration.
CompressFrames_FullStraddle(frames, start, current_time, mc) ==
    IF frames = <<>> THEN <<>>
    ELSE LET frame == Head(frames)
             rest  == CompressFrames_FullStraddle(Tail(frames), start + frame.duration,
                                                  current_time, mc)
         IN IF start + frame.duration <= current_time
            THEN rest
            ELSE <<Frame(frame.tile_id, (frame.duration * mc) \div 100)>> \o rest

RECURSIVE CompressFrames(_, _, _, _)
\* The frame loop of AnimationInstance::compress; start is the running
\* start time of Head(frames).
CompressFrames(frames, start, current_time, mc) ==
    IF frames = <<>> THEN <<>>
    ELSE LET frame == Head(frames)
             rest  == CompressFrames(Tail(frames), start + frame.duration,
                                     current_time, mc)
         IN IF start + frame.duration <= current_time
            THEN rest
            ELSE IF start < current_time /\ start + frame.duration > current_time
            THEN <<Frame(frame.tile_id,
                         ((frame.duration - (current_time - start)) * mc) \div 100)>>
                 \o rest
            ELSE <<Frame(frame.tile_id, (frame.duration * mc) \div 100)>> \o rest

\* new_movement of AnimationInstance::compress: movement / k on each axis.
CompressedMovement(movement, k) == << FDiv(movement[1], k), FDiv(movement[2], k) >>

\* new_start_position of AnimationInstance::compress:
\* start_position + (movement - new_movement) on each axis.
CompressedStartPosition(start_position, movement, new_movement) ==
    << FAdd(start_position[1], FSub(movement[1], new_movement[1])),
       FAdd(start_position[2], FSub(movement[2], new_movement[2])) >>

\* Assignments that forget to store the new duration.
CompressedWith_KeepDuration(inst, current_time, new_frames, new_duration, new_movement) ==
    [ animation_start |-> current_time,
      frames          |-> new_frames,
      duration        |-> inst.duration,
      movement        |-> new_movement,
      start_position  |-> CompressedStartPosition(inst.start_position, inst.movement,
                                                  new_movement),
      max_compression |-> inst.max_compression,
      is_compressed   |-> TRUE ]

\* Assignments that forget to move animation_start to current_time.
CompressedWith_KeepStart(inst, current_time, new_frames, new_duration, new_movement) ==
    [ animation_start |-> inst.animation_start,
      frames          |-> new_frames,
      duration        |-> new_duration,
      movement        |-> new_movement,
      start_position  |-> CompressedStartPosition(inst.start_position, inst.movement,
                                                  new_movement),
      max_compression |-> inst.max_compression,
      is_compressed   |-> TRUE ]

\* The assignments that end AnimationInstance::compress.
CompressedWith(inst, current_time, new_frames, new_duration, new_movement) ==
    [ animation_start |-> current_time,
      frames          |-> new_frames,
      duration        |-> new_duration,
      movement        |-> new_movement,
      start_position  |-> CompressedStartPosition(inst.start_position, inst.movement,
                                                  new_movement),
      max_compression |-> inst.max_compression,
      is_compressed   |-> TRUE ]

\* AnimationInstance::compress after its early return.
CompressedInstance(inst, current_time) ==
    LET new_frames   == CompressFrames(inst.frames, inst.animation_start,
                                       current_time, inst.max_compression)
        new_duration == SumDurations(new_frames)
        k            == FDiv(FromNat(inst.duration * inst.max_compression),
                             FromNat(new_duration * 100))
    IN CompressedWith(inst, current_time, new_frames, new_duration,
                      CompressedMovement(inst.movement, k))

\* A compress whose early return also restarts the instance at current_time.
InstanceCompress_RestartAt100(inst, current_time) ==
    IF inst.max_compression >= 100
    THEN [inst EXCEPT !.is_compressed = TRUE, !.animation_start = current_time]
    ELSE CompressedInstance(inst, current_time)

\* A compress whose early return leaves is_compressed as it was.
InstanceCompress_Unmarked(inst, current_time) ==
    IF inst.max_compression >= 100
    THEN inst
    ELSE CompressedInstance(inst, current_time)

\* A compress whose early return needs max_compression above 100.
InstanceCompress_Above100(inst, current_time) ==
    IF inst.max_compression > 100
    THEN [inst EXCEPT !.is_compressed = TRUE]
    ELSE CompressedInstance(inst, current_time)

\* AnimationInstance::compress
InstanceCompress(inst, current_time) ==
    IF inst.max_compression >= 100
    THEN [inst EXCEPT !.is_compressed = TRUE]
    ELSE CompressedInstance(inst, current_time)

\* start_position + movement of an instance, as add_animation computes it.
EndPosition(inst) ==
    << FAdd(inst.start_position[1], inst.movement[1]),
       FAdd(inst.start_position[2], inst.movement[2]) >>

\* animation_start + duration
EndTime(inst) == inst.animation_start + inst.duration

(***************************************************************************)
(* AnimationController state                                               *)
(***************************************************************************)
VARIABLES
    animations,       \* Vec<AnimationInstance>
    idle_interval,    \* Option<Duration>:  <<>> or <<ticks>>
    idle_animations,  \* Vec<IdleInstance>
    idle_start,       \* Option<IdleStart>: <<>> or <<[start_time, position]>>
    clock,            \* the caller's clock: the Instant it hands to a call
    call,             \* the last call made on the controller: [op, time, args]
    pre,              \* the controller and the call before the last call
    out,              \* the result of the last call, if it was get_frame
    tileset,          \* the tiles of the Tileset handed to AnimationRegistry::load
    registry,         \* Option<AnimationRegistry>: <<>> before load
    found,            \* the result of the last registry lookup
    layers,           \* the layers handed to LayersOrder::new
    indexes,          \* Option<LayersOrder>: its indexes, <<>> before new
    sprite_tile,      \* Option<AnimatedTile>: the tile handed to update
    sprite            \* Option<AnimatedSpriteState>

vars == <<animations, idle_interval, idle_animations, idle_start, clock, call, pre, out,
          tileset, registry, found, layers, indexes, sprite_tile, sprite>>

None    == <<>>
Some(v) == <<v>>

NoFrame   == [status |-> "none", tile_id |-> 0, position |-> Vec(0, 0)]
HangFrame == [status |-> "hang", tile_id |-> 0, position |-> Vec(0, 0)]
OutputFrame(tile_id, position) ==
    [status |-> "some", tile_id |-> tile_id, position |-> position]

\* Instant - Instant (coarsetime saturates at zero).
InstantSub(a, b) == IF a >= b THEN a - b ELSE 0

Controller ==
    [ animations      |-> animations,
      idle_interval   |-> idle_interval,
      idle_animations |-> idle_animations,
      idle_start      |-> idle_start ]

\* The arguments of a call that takes none besides the time.
NoArgs == <<>>

\* The arguments of add_animation besides start_time.
AddArgs(template, movement, start_position) ==
    [ template |-> template, movement |-> movement, start_position |-> start_position ]

\* The arguments of add_idle_animation and set_idle_animation.
IdleArgs(template, interval) == [ template |-> template, interval |-> interval ]

\* Every action on the controller records the call it models, its arguments
\* and the controller it started from, and leaves the registry alone.  after_update marks a get_frame(t) or an
\* add_animation(t) that directly follows update(t), the call order of the
\* game loop.
RecordArgs(op, time, args) ==
    /\ call' = [ op |-> op, time |-> time, args |-> args,
                 after_update |-> (/\ op \in {"get_frame", "add_animation"}
                                   /\ call.op = "update"
                                   /\ call.time = time) ]
    /\ pre'  = Controller
    /\ UNCHANGED <<tileset, registry, found, layers, indexes, sprite_tile, sprite>>

Record(op, time) == RecordArgs(op, time, NoArgs)

(***************************************************************************)
(* AnimationController operations                                          *)
(***************************************************************************)
\* A retain that keeps every instance that has started.
Retained_Started(queue, time) ==
    SelectSeq(queue, LAMBDA i : i.animation_start <= time)

\* A retain that keeps the instances that have not started yet.
Retained_Unstarted(queue, time) ==
    SelectSeq(queue, LAMBDA i : i.animation_start >= time)

\* A retain that also drops the instance ending exactly at time.
Retained_Strict(queue, time) == SelectSeq(queue, LAMBDA i : EndTime(i) > time)

\* The retain of AnimationController::update.
Retained(queue, time) == SelectSeq(queue, LAMBDA i : EndTime(i) >= time)

\* A compress pass that ignores is_compressed.
ControllerCompress_Unguarded(queue, time) ==
    [ i \in DOMAIN queue |-> InstanceCompress(queue[i], time) ]

\* AnimationController::compress
ControllerCompress(queue, time) ==
    [ i \in DOMAIN queue |->
        IF ~ queue[i].is_compressed
        THEN InstanceCompress(queue[i], time)
        ELSE queue[i] ]

RECURSIVE TileIdWalk_HoldLast(_, _)
\* A frame walk that stays on the last frame once the frames are over.
TileIdWalk_HoldLast(frames, time) ==
    IF frames = <<>> THEN 0
    ELSE IF time < Head(frames).duration \/ Len(frames) = 1
         THEN Head(frames).tile_id
         ELSE TileIdWalk_HoldLast(Tail(frames), time - Head(frames).duration)

RECURSIVE TileIdWalk_Inclusive(_, _)
\* A frame walk that keeps a frame until its duration is exceeded.
TileIdWalk_Inclusive(frames, time) ==
    IF frames = <<>> THEN 0
    ELSE IF time <= Head(frames).duration
         THEN Head(frames).tile_id
         ELSE TileIdWalk_Inclusive(Tail(frames), time - Head(frames).duration)

RECURSIVE TileIdWalk(_, _)
\* The frame walk of get_tile_id: time is the time left to skip.
TileIdWalk(frames, time) ==
    IF frames = <<>> THEN 0
    ELSE IF time < Head(frames).duration
         THEN Head(frames).tile_id
         ELSE TileIdWalk(Tail(frames), time - Head(frames).duration)

\* AnimationController::get_tile_id
GetTileId(finish_time, instance) ==
    TileIdWalk(instance.frames, InstantSub(finish_time, instance.animation_start))

\* An interpolation that takes finish_time itself for the elapsed time.
InterpolatedPosition_FromZero(finish_time, instance) ==
    LET duration       == FromNat(finish_time)
        total_duration == FromNat(instance.duration)
    IN << FAdd(instance.start_position[1],
               FDiv(FMul(instance.movement[1], duration), total_duration)),
          FAdd(instance.start_position[2],
               FDiv(FMul(instance.movement[2], duration), total_duration)) >>

\* The x and y of get_position before they are rounded.
InterpolatedPosition(finish_time, instance) ==
    LET duration       == FromNat(InstantSub(finish_time, instance.animation_start))
        total_duration == FromNat(instance.duration)
    IN << FAdd(instance.start_position[1],
               FDiv(FMul(instance.movement[1], duration), total_duration)),
          FAdd(instance.start_position[2],
               FDiv(FMul(instance.movement[2], duration), total_duration)) >>

\* The two round() calls of get_position.
RoundedPosition(xy) == << FRound(xy[1]), FRound(xy[2]) >>

\* AnimationController::get_position
GetPosition(finish_time, instance) ==
    RoundedPosition(InterpolatedPosition(finish_time, instance))

\* IdleInstance::new
IdleInstanceNew(template) ==
    [ frames |-> template.frames, duration |-> SumDurations(template.frames) ]

RECURSIVE IdleWindowStart(_, _, _)
\* The while loop of get_idle_animation, for period = interval + duration > 0.
IdleWindowStart(start, period, now) ==
    IF start + period <= now
    THEN IdleWindowStart(start + period, period, now)
    ELSE start

\* A get_idle_animation that takes the origin, at time 0, for a missing
\* anchor.
GetIdleAnimation_DefaultAnchor(c, now) ==
    IF c.idle_interval = None \/ c.idle_animations = <<>>
    THEN NoFrame
    ELSE LET interval   == c.idle_interval[1]
             instance   == c.idle_animations[1]
             idle_start_ == IF c.idle_start = None
                            THEN [start_time |-> 0, position |-> Vec(0, 0)]
                            ELSE c.idle_start[1]
             period     == interval + instance.duration
         IN IF period = 0 /\ idle_start_.start_time <= now
            THEN HangFrame
            ELSE LET start == IdleWindowStart(idle_start_.start_time, period, now)
                     animation_start == start + interval
                 IN IF animation_start > now
                    THEN NoFrame
                    ELSE OutputFrame(TileIdWalk(instance.frames, now - animation_start),
                                     idle_start_.position)

\* A get_idle_animation that plays the idle instance added last.
GetIdleAnimation_Latest(c, now) ==
    IF c.idle_interval = None \/ c.idle_animations = <<>> \/ c.idle_start = None
    THEN NoFrame
    ELSE LET interval   == c.idle_interval[1]
             instance   == c.idle_animations[Len(c.idle_animations)]
             idle_start_ == c.idle_start[1]
             period     == interval + instance.duration
         IN IF period = 0 /\ idle_start_.start_time <= now
            THEN HangFrame
            ELSE LET start == IdleWindowStart(idle_start_.start_time, period, now)
                     animation_start == start + interval
                 IN IF animation_start > now
                    THEN NoFrame
                    ELSE OutputFrame(TileIdWalk(instance.frames, now - animation_start),
                                     idle_start_.position)

\* A get_idle_animation that walks the frames by the time since the anchor
\* instead of the time since the start of the idle window.
GetIdleAnimation_SinceAnchor(c, now) ==
    IF c.idle_interval = None \/ c.idle_animations = <<>> \/ c.idle_start = None
    THEN NoFrame
    ELSE LET interval   == c.idle_interval[1]
             instance   == c.idle_animations[1]
             idle_start_ == c.idle_start[1]
             period     == interval + instance.duration
         IN IF period = 0 /\ idle_start_.start_time <= now
            THEN HangFrame
            ELSE LET start == IdleWindowStart(idle_start_.start_time, period, now)
                     animation_start == start + interval
                 IN IF animation_start > now
                    THEN NoFrame
                    ELSE OutputFrame(TileIdWalk(instance.frames,
                                                now - idle_start_.start_time),
                                     idle_start_.position)

\* AnimationController::get_idle_animation.  With interval + duration = 0
\* and start <= now the while loop never ends.
GetIdleAnimation(c, now) ==
    IF c.idle_interval = None \/ c.idle_animations = <<>> \/ c.idle_start = None
    THEN NoFrame
    ELSE LET interval   == c.idle_interval[1]
             instance   == c.idle_animations[1]
             idle_start_ == c.idle_start[1]
             period     == interval + instance.duration
         IN IF period = 0 /\ idle_start_.start_time <= now
            THEN HangFrame
            ELSE LET start == IdleWindowStart(idle_start_.start_time, period, now)
                     animation_start == start + interval
                 IN IF animation_start > now
                    THEN NoFrame
                    ELSE OutputFrame(TileIdWalk(instance.frames, now - animation_start),
                                     idle_start_.position)

\* A get_frame that shows the idle animation whenever time lies in an idle
\* window, and the queue only in the gaps.
GetFrame_IdleFirst(c, time) ==
    IF c.animations # <<>> /\ GetIdleAnimation(c, time).status # "some"
    THEN OutputFrame(GetTileId(time, c.animations[1]),
                     GetPosition(time, c.animations[1]))
    ELSE GetIdleAnimation(c, time)

\* AnimationController::get_frame on the controller value c.
GetFrame(c, time) ==
    IF c.animations # <<>>
    THEN OutputFrame(GetTileId(time, c.animations[1]),
                     GetPosition(time, c.animations[1]))
    ELSE GetIdleAnimation(c, time)

\* A new instance that starts where the last one starts, not where it ends.
ChainedInstance_Overlapping(last_instance, template, movement) ==
    LET new_start_time     == last_instance.animation_start
        new_start_position == EndPosition(last_instance)
    IN InstanceCompress(InstanceNew(new_start_time, template, movement,
                                    new_start_position),
                        new_start_time)

\* The instance add_animation builds behind last_instance, the last one of
\* the compressed queue.
ChainedInstance(last_instance, template, movement) ==
    LET new_start_time     == EndTime(last_instance)
        new_start_position == EndPosition(last_instance)
    IN InstanceCompress(InstanceNew(new_start_time, template, movement,
                                    new_start_position),
                        new_start_time)

\* A push that puts the new instance in front of the queue.
PushChained_Front(compressed, template, movement) ==
    << ChainedInstance(compressed[Len(compressed)], template, movement) >> \o compressed

\* The push that ends add_animation when the queue was not empty.
PushChained(compressed, template, movement) ==
    Append(compressed, ChainedInstance(compressed[Len(compressed)], template, movement))

\* An add_animation that starts the new instance at start_time, playing or
\* not, instead of behind the last one.
AddedQueue_StartAtCall(queue, start_time, template, movement, start_position) ==
    IF queue = <<>>
    THEN << InstanceNew(start_time, template, movement, start_position) >>
    ELSE Append(ControllerCompress(queue, start_time),
                InstanceCompress(InstanceNew(start_time, template, movement,
                                             start_position),
                                 start_time))

\* An add_animation that compresses the new instance on an empty queue too.
AddedQueue_CompressFirst(queue, start_time, template, movement, start_position) ==
    IF queue = <<>>
    THEN << InstanceCompress(InstanceNew(start_time, template, movement, start_position),
                             start_time) >>
    ELSE PushChained(ControllerCompress(queue, start_time), template, movement)

\* The queue add_animation leaves for an accepted template.
AddedQueue(queue, start_time, template, movement, start_position) ==
    IF queue = <<>>
    THEN << InstanceNew(start_time, template, movement, start_position) >>
    ELSE PushChained(ControllerCompress(queue, start_time), template, movement)

\* An anchor at the start of the instance just pushed.
IdleStartOf_Start(new_instance) ==
    [ start_time |-> new_instance.animation_start,
      position   |-> new_instance.start_position ]

\* IdleStart::new(end_time, end_position) for the instance just pushed.
IdleStartOf(new_instance) ==
    [ start_time |-> EndTime(new_instance), position |-> EndPosition(new_instance) ]

Init ==
    /\ animations = <<>>
    /\ idle_interval = None
    /\ idle_animations = <<>>
    /\ idle_start = None
    /\ clock = 0
    /\ call = [op |-> "new", time |-> 0, args |-> NoArgs, after_update |-> FALSE]
    /\ pre = [ animations |-> <<>>, idle_interval |-> None, idle_animations |-> <<>>,
               idle_start |-> None ]
    /\ out = NoFrame
    /\ tileset = <<>>
    /\ registry = None
    /\ found = None
    /\ layers = <<>>
    /\ indexes = None
    /\ sprite_tile = None
    /\ sprite = None

\* The caller's monotonic clock advances between calls.
Tick ==
    /\ clock < MaxTime
    /\ clock' = clock + 1
    /\ out' = NoFrame
    /\ UNCHANGED <<animations, idle_interval, idle_animations, idle_start>>
    /\ Record("tick", clock + 1)

\* AnimationController::update
Update(time) ==
    /\ animations' = IF animations # <<>> THEN Retained(animations, time) ELSE animations
    /\ out' = NoFrame
    /\ UNCHANGED <<idle_interval, idle_animations, idle_start, clock>>
    /\ Record("update", time)

\* AnimationController::get_frame
GetFrameCall(time) ==
    /\ out' = GetFrame(Controller, time)
    /\ UNCHANGED <<animations, idle_interval, idle_animations, idle_start, clock>>
    /\ Record("get_frame", time)

\* An add_animation that tests max_compression = 0 only after it has
\* compressed the queue.
AddAnimation_RejectLate(start_time, template, movement, start_position) ==
    /\ Len(animations) < MaxQueue
    /\ IF template.max_compression = 0
       THEN /\ animations' = IF animations # <<>>
                             THEN ControllerCompress(animations, start_time)
                             ELSE animations
            /\ UNCHANGED idle_start
       ELSE /\ animations' = AddedQueue(animations, start_time, template, movement,
                                        start_position)
            /\ idle_start' = Some(IdleStartOf(animations'[Len(animations')]))
    /\ out' = NoFrame
    /\ UNCHANGED <<idle_interval, idle_animations, clock>>
    /\ RecordArgs("add_animation", start_time,
                  AddArgs(template, movement, start_position))

\* AnimationController::add_animation
AddAnimation(start_time, template, movement, start_position) ==
    /\ Len(animations) < MaxQueue
    /\ IF template.max_compression = 0
       THEN UNCHANGED <<animations, idle_start>>
       ELSE /\ animations' = AddedQueue(animations, start_time, template, movement,
                                        start_position)
            /\ idle_start' = Some(IdleStartOf(animations'[Len(animations')]))
    /\ out' = NoFrame
    /\ UNCHANGED <<idle_interval, idle_animations, clock>>
    /\ RecordArgs("add_animation", start_time,
                  AddArgs(template, movement, start_position))

\* Duration::from_secs
FromSecs(secs) == secs * TicksPerSec

\* The push of add_idle_animation, as a function of the idle list.
AddIdleAnimation(idles, template) == Append(idles, IdleInstanceNew(template))

\* AnimationController::add_idle_animation
AddIdleAnimationCall(template, interval) ==
    /\ Len(idle_animations) < MaxIdle
    /\ idle_interval' = Some(FromSecs(interval))
    /\ idle_animations' = AddIdleAnimation(idle_animations, template)
    /\ out' = NoFrame
    /\ UNCHANGED <<animations, idle_start, clock>>
    /\ RecordArgs("add_idle_animation", clock, IdleArgs(template, interval))

\* A set_idle_animation that does not clear the idle instances first.
SetIdleAnimation_NoClear(template, interval) ==
    /\ idle_interval' = Some(FromSecs(interval))
    /\ idle_animations' = AddIdleAnimation(idle_animations, template)
    /\ out' = NoFrame
    /\ UNCHANGED <<animations, idle_start, clock>>
    /\ RecordArgs("set_idle_animation", clock, IdleArgs(template, interval))

\* AnimationController::set_idle_animation
SetIdleAnimation(template, interval) ==
    /\ idle_interval' = Some(FromSecs(interval))
    /\ idle_animations' = AddIdleAnimation(<<>>, template)
    /\ out' = NoFrame
    /\ UNCHANGED <<animations, idle_start, clock>>
    /\ RecordArgs("set_idle_animation", clock, IdleArgs(template, interval))

\* The add_animation calls the caller makes: the template with
\* max_compression 50 moves by the long movement, every other template by
\* the short one.
AddInputs ==
    { input \in { AddArgs(template, movement, start_position) :
                      template \in Templates, movement \in Movements,
                      start_position \in StartPositions } :
          input.movement = IF input.template.max_compression = 50
                           THEN Vec(100, 0) ELSE Vec(3, -1) }

\* The idle animation of test_idle_animation: a template that plays, and a
\* whole number of seconds between two plays.
DefaultIdle == IdleArgs(Template(<<Frame(101, 1), Frame(102, 1)>>, 100), 1)

Next ==
    \/ Tick
    \/ Update(clock)
    \/ GetFrameCall(clock)
    \/ \E input \in AddInputs :
           AddAnimation(clock, input.template, input.movement, input.start_position)
    \/ SetIdleAnimation(DefaultIdle.template, DefaultIdle.interval)

Spec == Init /\ [][Next]_vars

(***************************************************************************)
(* AnimationInstance::compress on its own: an instance built by            *)
(* AnimationInstance::new from any accepted template, compressed again and *)
(* again as the clock advances.                                            *)
(***************************************************************************)
InitInstance ==
    /\ \E start_time \in Times, template \in Templates,
          movement \in Movements, start_position \in StartPositions :
           /\ template.max_compression # 0
           /\ animations = << InstanceNew(start_time, template, movement,
                                          start_position) >>
           /\ clock = start_time
           /\ call = [op |-> "instance_new", time |-> start_time, args |-> NoArgs,
                       after_update |-> FALSE]
    /\ idle_interval = None
    /\ idle_animations = <<>>
    /\ idle_start = None
    /\ pre = [ animations |-> <<>>, idle_interval |-> None, idle_animations |-> <<>>,
               idle_start |-> None ]
    /\ out = NoFrame
    /\ tileset = <<>>
    /\ registry = None
    /\ found = None
    /\ layers = <<>>
    /\ indexes = None
    /\ sprite_tile = None
    /\ sprite = None

\* AnimationInstance::compress called directly on the instance.
CompressCall(current_time) ==
    /\ animations' = << InstanceCompress(animations[1], current_time) >>
    /\ out' = NoFrame
    /\ UNCHANGED <<idle_interval, idle_animations, idle_start, clock>>
    /\ Record("compress", current_time)

NextInstance ==
    \/ Tick
    \/ CompressCall(clock)

SpecInstance == InitInstance /\ [][NextInstance]_vars

(***************************************************************************)
(* The idle fallback: the caller configures idle animations with           *)
(* add_idle_animation and set_idle_animation, every idle template with     *)
(* every interval, around animations that are never compressed or are      *)
(* rejected.                                                               *)
(***************************************************************************)
IdleSceneInputs == { input \in AddInputs : input.template.max_compression \in {0, 100} }

NextIdle ==
    \/ Tick
    \/ Update(clock)
    \/ GetFrameCall(clock)
    \/ \E input \in IdleSceneInputs :
           AddAnimation(clock, input.template, input.movement, input.start_position)
    \/ \E template \in IdleTemplates, interval \in IdleIntervals :
           AddIdleAnimationCall(template, interval)
    \/ \E template \in IdleTemplates, interval \in IdleIntervals :
           SetIdleAnimation(template, interval)

SpecIdle == Init /\ [][NextIdle]_vars

(***************************************************************************)
(* Draining the queue: the caller adds animations up to MaxTime and none   *)
(* afterwards, configures no idle animation, and goes on calling update    *)
(* while its clock advances past the end of everything it has queued.      *)
(***************************************************************************)
RECURSIVE Longest(_)
\* The longest total duration among a set of templates.
Longest(templates) ==
    IF templates = {} THEN 0
    ELSE LET template == CHOOSE t \in templates : TRUE
             rest     == Longest(templates \ {template})
         IN IF SumDurations(template.frames) > rest
            THEN SumDurations(template.frames) ELSE rest

\* An instant later than the end of any queue built up to MaxTime.
DrainHorizon == MaxTime + MaxQueue * Longest(Templates) + 1

\* The caller's clock goes on advancing after its last add_animation.
DrainTick ==
    /\ clock < DrainHorizon
    /\ clock' = clock + 1
    /\ out' = NoFrame
    /\ UNCHANGED <<animations, idle_interval, idle_animations, idle_start>>
    /\ Record("tick", clock + 1)

\* add_animation, called no later than MaxTime.
AddAnimationUntil(last, input) ==
    /\ clock <= last
    /\ AddAnimation(clock, input.template, input.movement, input.start_position)

NextDrain ==
    \/ DrainTick
    \/ Update(clock)
    \/ GetFrameCall(clock)
    \/ \E input \in AddInputs : AddAnimationUntil(MaxTime, input)

\* The clock keeps advancing and update keeps being called.
SpecDrain ==
    /\ Init
    /\ [][NextDrain]_vars
    /\ WF_vars(DrainTick)
    /\ WF_vars(Update(clock))

(***************************************************************************)
(* AnimationRegistry: load from the tiles of a tileset, then lookups by    *)
(* name.                                                                   *)
(***************************************************************************)
\* A tileset has at most MaxTiles tiles.
MaxTiles == 2

\* The value of a tile's "name" property: none, one that is no string, or a
\* string.
NoName        == [kind |-> "absent", name |-> ""]
NotAString    == [kind |-> "other",  name |-> ""]
StringValue(name) == [kind |-> "string", name |-> name]

\* The names looked up; no tile is called "run".
LookupNames == {"walk", "idle", "run"}

\* tiled::animation::Frame, its duration in milliseconds.
TiledFrames == << [tile_id |-> 7, duration |-> 500], [tile_id |-> 8, duration |-> 1000] >>

\* The tiles a tileset is made of: id, "name" property, animation.
Tiles ==
    [ id        : {1, 2},
      name      : {NoName, NotAString, StringValue("walk"), StringValue("idle")},
      animation : {None, Some(TiledFrames)} ]

RECURSIVE SeqsUpTo(_, _)
\* The sequences of at most n elements of S.
SeqsUpTo(S, n) ==
    IF n = 0 THEN { <<>> }
    ELSE LET shorter == SeqsUpTo(S, n - 1)
         IN shorter \cup { Append(q, x) : q \in { r \in shorter : Len(r) = n - 1 }, x \in S }

Tilesets == SeqsUpTo(Tiles, MaxTiles)

\* Duration::from_millis
FromMillis(millis) == (millis * TicksPerSec) \div 1000

\* impl From<&animation::Frame> for AnimationFrame
AnimationFrameFrom(f) == [tile_id |-> f.tile_id, duration |-> FromMillis(f.duration)]

\* HashMap::insert
Insert(map, key, value) ==
    [ k \in DOMAIN map \cup {key} |-> IF k = key THEN value ELSE map[k] ]

\* HashMap::get
Get(map, key) == IF key \in DOMAIN map THEN Some(map[key]) ELSE None

EmptyMap == << >>

\* The template load builds for a named tile with an animation.
LoadedTemplate(name, tile) ==
    [ name            |-> name,
      gid             |-> tile.id,
      frames          |-> [ i \in DOMAIN tile.animation[1] |->
                                AnimationFrameFrom(tile.animation[1][i]) ],
      ordering        |-> 0,
      max_compression |-> 40,
      blocks_turn     |-> TRUE,
      cancel_frame    |-> None ]

\* A loop body that registers the name of every tile with a string name,
\* and the template only for the tiles that have an animation too.
LoadTile_NameFirst(reg, tile) ==
    IF tile.name.kind = "string"
    THEN [ animations |-> Insert(reg.animations, tile.name.name, tile.id),
           templates  |-> IF tile.animation # None
                          THEN Insert(reg.templates, tile.id,
                                      LoadedTemplate(tile.name.name, tile))
                          ELSE reg.templates ]
    ELSE reg

\* The body of the loop of AnimationRegistry::load.
LoadTile(reg, tile) ==
    IF tile.name.kind = "string" /\ tile.animation # None
    THEN [ animations |-> Insert(reg.animations, tile.name.name, tile.id),
           templates  |-> Insert(reg.templates, tile.id,
                                 LoadedTemplate(tile.name.name, tile)) ]
    ELSE reg

RECURSIVE LoadFrom(_, _)
\* The loop of AnimationRegistry::load over the tiles not yet visited.
LoadFrom(reg, tiles) ==
    IF tiles = <<>> THEN reg
    ELSE LoadFrom(LoadTile(reg, Head(tiles)), Tail(tiles))

\* AnimationRegistry::load
Load(tiles) == LoadFrom([animations |-> EmptyMap, templates |-> EmptyMap], tiles)

\* AnimationRegistry::get_animation_id
GetAnimationId(reg, template) == Get(reg.animations, template)

\* AnimationRegistry::get_template
GetTemplate(reg, template) ==
    IF Get(reg.animations, template) = None
    THEN None
    ELSE Get(reg.templates, Get(reg.animations, template)[1])

\* The arguments of a lookup.
LookupArgs(template) == [ template |-> template ]

\* The registry's operations leave the controller alone.
RecordRegistry(op, args) ==
    /\ call' = [ op |-> op, time |-> clock, args |-> args, after_update |-> FALSE ]
    /\ UNCHANGED <<animations, idle_interval, idle_animations, idle_start, clock,
                   pre, out, tileset, layers, indexes, sprite_tile, sprite>>

InitRegistry ==
    /\ tileset \in Tilesets
    /\ registry = None
    /\ found = None
    /\ layers = <<>>
    /\ indexes = None
    /\ sprite_tile = None
    /\ sprite = None
    /\ animations = <<>>
    /\ idle_interval = None
    /\ idle_animations = <<>>
    /\ idle_start = None
    /\ clock = 0
    /\ call = [op |-> "tileset", time |-> 0, args |-> NoArgs, after_update |-> FALSE]
    /\ pre = [ animations |-> <<>>, idle_interval |-> None, idle_animations |-> <<>>,
               idle_start |-> None ]
    /\ out = NoFrame

\* AnimationRegistry::load
LoadCall ==
    /\ registry = None
    /\ registry' = Some(Load(tileset))
    /\ found' = None
    /\ RecordRegistry("load", NoArgs)

\* AnimationRegistry::get_animation_id
GetAnimationIdCall(template) ==
    /\ registry # None
    /\ found' = GetAnimationId(registry[1], template)
    /\ UNCHANGED registry
    /\ RecordRegistry("get_animation_id", LookupArgs(template))

\* AnimationRegistry::get_template
GetTemplateCall(template) ==
    /\ registry # None
    /\ found' = GetTemplate(registry[1], template)
    /\ UNCHANGED registry
    /\ RecordRegistry("get_template", LookupArgs(template))

NextRegistry ==
    \/ LoadCall
    \/ \E template \in LookupNames : GetAnimationIdCall(template)
    \/ \E template \in LookupNames : GetTemplateCall(template)

SpecRegistry == InitRegistry /\ [][NextRegistry]_vars

(***************************************************************************)
(* LayersOrder: the draw order of the layers of a map.                     *)
(***************************************************************************)
\* A map has at most MaxLayers layers.
MaxLayers == 3

\* The value of a layer's "yorder" property: none, one that is no integer,
\* or an integer.
NoYorder      == [kind |-> "absent", val |-> 0]
NotAnInt      == [kind |-> "other",  val |-> 0]
IntValue(val) == [kind |-> "int",    val |-> val]

\* The layers a map is made of, each one its "yorder" property.
Layers == { NoYorder, NotAnInt, IntValue(-2), IntValue(-1), IntValue(0), IntValue(1) }

LayerLists == SeqsUpTo(Layers, MaxLayers)

\* fn layer_order
LayerOrder(layer) == IF layer.kind = "int" THEN layer.val ELSE -1

\* struct LayerY
LayerY(index, y) == [index |-> index, y |-> y]

\* enumerate().map(..).collect(): indexes count from 0.
Enumerated(layer_list) ==
    [ i \in DOMAIN layer_list |-> LayerY(i - 1, LayerOrder(layer_list[i])) ]

RECURSIVE InsertByY_BeforeEqual(_, _)
\* An insertion that puts item before the elements it compares equal to.
InsertByY_BeforeEqual(sorted, item) ==
    IF sorted = <<>> THEN << item >>
    ELSE IF item.y <= Head(sorted).y
         THEN << item >> \o sorted
         ELSE << Head(sorted) >> \o InsertByY_BeforeEqual(Tail(sorted), item)

RECURSIVE InsertByY(_, _)
\* The place of item among elements already sorted with a.y.cmp(&b.y): the
\* sort is stable, item stays behind the elements it compares equal to.
InsertByY(sorted, item) ==
    IF sorted = <<>> THEN << item >>
    ELSE IF item.y < Head(sorted).y
         THEN << item >> \o sorted
         ELSE << Head(sorted) >> \o InsertByY(Tail(sorted), item)

RECURSIVE SortedByY(_, _)
\* indexes.sort_by(|a, b| a.y.cmp(&b.y)), element by element.
SortedByY(sorted, rest) ==
    IF rest = <<>> THEN sorted
    ELSE SortedByY(InsertByY(sorted, Head(rest)), Tail(rest))

\* LayersOrder::new
LayersOrderNew(layer_list) == SortedByY(<<>>, Enumerated(layer_list))

\* The operations on the layers leave the controller, the registry and the
\* sprite alone.
RecordLayers(op) ==
    /\ call' = [ op |-> op, time |-> clock, args |-> NoArgs, after_update |-> FALSE ]
    /\ UNCHANGED <<animations, idle_interval, idle_animations, idle_start, clock,
                   pre, out, tileset, registry, found, layers, sprite_tile, sprite>>

InitLayers ==
    /\ layers \in LayerLists
    /\ indexes = None
    /\ tileset = <<>>
    /\ registry = None
    /\ found = None
    /\ sprite_tile = None
    /\ sprite = None
    /\ animations = <<>>
    /\ idle_interval = None
    /\ idle_animations = <<>>
    /\ idle_start = None
    /\ clock = 0
    /\ call = [op |-> "layers", time |-> 0, args |-> NoArgs, after_update |-> FALSE]
    /\ pre = [ animations |-> <<>>, idle_interval |-> None, idle_animations |-> <<>>,
               idle_start |-> None ]
    /\ out = NoFrame

\* LayersOrder::new
LayersOrderNewCall ==
    /\ indexes = None
    /\ indexes' = Some(LayersOrderNew(layers))
    /\ RecordLayers("layers_order_new")

\* LayersOrder::order
OrderCall ==
    /\ indexes # None
    /\ UNCHANGED indexes
    /\ RecordLayers("order")

NextLayers ==
    \/ LayersOrderNewCall
    \/ OrderCall

SpecLayers == InitLayers /\ [][NextLayers]_vars

(***************************************************************************)
(* AnimatedSpriteState: the frame index of one animated object, updated    *)
(* against the AnimatedTile of its animation; Instant::now() is the clock. *)
(***************************************************************************)
\* struct Animation, its duration the sum of the frames' durations as the
\* tileset loader computes it.
SpriteAnimation(frames) == [frames |-> frames, duration |-> SumDurations(frames)]

\* AnimatedTile::new
AnimatedTileNew(animation) == [animation |-> animation]

\* The animated tiles: two frames, one frame, a first frame without
\* duration, and a single frame without duration.
SpriteTiles ==
    { AnimatedTileNew(SpriteAnimation(<<Frame(20, 1), Frame(21, 2)>>)),
      AnimatedTileNew(SpriteAnimation(<<Frame(30, 2)>>)),
      AnimatedTileNew(SpriteAnimation(<<Frame(40, 0), Frame(41, 1)>>)),
      AnimatedTileNew(SpriteAnimation(<<Frame(50, 0)>>)) }

\* The animation ids handed to new, set_animation and reset_animation.
SpriteAnimationIds == {0, 1}

\* AnimatedSpriteState::new
AnimatedSpriteStateNew(current_animation, playing, now) ==
    [ animation_id |-> current_animation, time |-> now, frame |-> 0,
      playing |-> playing ]

\* AnimatedSpriteState::reset_animation
ResetAnimation(state, animation_id, now) ==
    [state EXCEPT !.animation_id = animation_id, !.frame = 0, !.time = now]

\* AnimatedSpriteState::set_animation
SetAnimation(state, animation, now) ==
    IF state.animation_id # animation
    THEN ResetAnimation(state, animation, now)
    ELSE state

\* A step to the next frame that does not go back to 0.
NextFrame_NoWrap(frame, len) == frame + 1

\* self.frame += 1 and the test that takes it back to 0.
NextFrame(frame, len) == IF frame + 1 >= len THEN 0 ELSE frame + 1

\* The outcome of update: the state it leaves, and whether it panicked.
Updated(state)  == [state |-> state, panicked |-> FALSE]
Panicked(state) == [state |-> state, panicked |-> TRUE]

RECURSIVE StepFrames(_, _, _, _)
\* The while loop of update; indexing frames past the end panics.
StepFrames(state, animation, now, dt) ==
    IF state.frame >= Len(animation.frames)
    THEN Panicked(state)
    ELSE IF dt > animation.frames[state.frame + 1].duration
         THEN StepFrames(
                  [state EXCEPT
                     !.time  = state.time + animation.frames[state.frame + 1].duration,
                     !.frame = NextFrame(state.frame, Len(animation.frames))],
                  animation, now,
                  InstantSub(now, state.time + animation.frames[state.frame + 1].duration))
         ELSE Updated(state)

\* update with dt = now - self.time; the remainder by a zero duration panics.
UpdateFrom(state, animation, now, dt) ==
    IF dt > animation.duration
    THEN IF animation.duration = 0
         THEN Panicked(state)
         ELSE StepFrames(state, animation, now, dt % animation.duration)
    ELSE StepFrames(state, animation, now, dt)

\* AnimatedSpriteState::update
SpriteUpdate(state, tile, now) ==
    IF state.playing
    THEN UpdateFrom(state, tile.animation, now, InstantSub(now, state.time))
    ELSE Updated(state)

\* The arguments of a call on the sprite state, with the state before it.
SpriteArgs(before, animation, panicked) ==
    [ before |-> before, animation |-> animation, panicked |-> panicked ]

\* The operations on the sprite state leave everything else alone.
RecordSprite(op, args) ==
    /\ call' = [ op |-> op, time |-> clock, args |-> args, after_update |-> FALSE ]
    /\ UNCHANGED <<animations, idle_interval, idle_animations, idle_start, clock,
                   pre, out, tileset, registry, found, layers, indexes, sprite_tile>>

InitSprite ==
    /\ \E tile \in SpriteTiles, id \in SpriteAnimationIds, playing \in BOOLEAN :
           /\ sprite_tile = Some(tile)
           /\ sprite = Some(AnimatedSpriteStateNew(id, playing, 0))
    /\ layers = <<>>
    /\ indexes = None
    /\ tileset = <<>>
    /\ registry = None
    /\ found = None
    /\ animations = <<>>
    /\ idle_interval = None
    /\ idle_animations = <<>>
    /\ idle_start = None
    /\ clock = 0
    /\ call = [op |-> "sprite_new", time |-> 0, args |-> NoArgs, after_update |-> FALSE]
    /\ pre = [ animations |-> <<>>, idle_interval |-> None, idle_animations |-> <<>>,
               idle_start |-> None ]
    /\ out = NoFrame

\* AnimatedSpriteState::update against the animated tile
SpriteUpdateCall ==
    /\ sprite' = Some(SpriteUpdate(sprite[1], sprite_tile[1], clock).state)
    /\ RecordSprite("sprite_update",
                    SpriteArgs(sprite[1], sprite[1].animation_id,
                               SpriteUpdate(sprite[1], sprite_tile[1], clock).panicked))

\* AnimatedSpriteState::set_animation
SetAnimationCall(animation) ==
    /\ sprite' = Some(SetAnimation(sprite[1], animation, clock))
    /\ RecordSprite("set_animation", SpriteArgs(sprite[1], animation, FALSE))

\* AnimatedSpriteState::reset_animation
ResetAnimationCall(animation_id) ==
    /\ sprite' = Some(ResetAnimation(sprite[1], animation_id, clock))
    /\ RecordSprite("reset_animation", SpriteArgs(sprite[1], animation_id, FALSE))

\* The caller starts or stops the animation through the public field.
SetPlaying(playing) ==
    /\ sprite' = Some([sprite[1] EXCEPT !.playing = playing])
    /\ RecordSprite("playing", SpriteArgs(sprite[1], sprite[1].animation_id, FALSE))

NextSprite ==
    \/ Tick
    \/ SpriteUpdateCall
    \/ \E animation \in SpriteAnimationIds : SetAnimationCall(animation)
    \/ \E animation_id \in SpriteAnimationIds : ResetAnimationCall(animation_id)
    \/ \E playing \in BOOLEAN : SetPlaying(playing)

SpecSprite == InitSprite /\ [][NextSprite]_vars

(***************************************************************************)
(* Properties                                                              *)
(***************************************************************************)
\* The last call was an add_animation that pushed an instance.
Accepted == call.op = "add_animation" /\ Len(animations) = Len(pre.animations) + 1

\* The instant t lies strictly inside the playing time of inst.
InFlight(inst, t) == inst.animation_start < t /\ t < EndTime(inst)

VecEq(a, b) == FEq(a[1], b[1]) /\ FEq(a[2], b[2])

\* C1: every queued instance starts exactly when its predecessor ends.
C1_ExactChaining ==
    \A i \in 1..(Len(animations) - 1) :
        animations[i+1].animation_start = EndTime(animations[i])

\* An instance was appended behind one that add_animation had to compress
\* while it was playing.
C1_Witness ==
    /\ Accepted
    /\ Len(pre.animations) = 1
    /\ ~ pre.animations[1].is_compressed
    /\ pre.animations[1].max_compression < 100
    /\ InFlight(pre.animations[1], call.time)
    /\ animations[1].duration > 0

\* C2: compressing an instance leaves start_position + movement unchanged
\* on both axes.
C2_EndPositionPreserved ==
    call.op = "add_animation" =>
        \A i \in 1..Len(pre.animations) :
            ~ pre.animations[i].is_compressed =>
                VecEq(EndPosition(animations[i]), EndPosition(pre.animations[i]))

\* C3: an instance with is_compressed = TRUE is never changed again: an
\* add_animation leaves it as it is, and the other calls leave it as it is
\* or remove it.
C3_CompressedAtMostOnce ==
    /\ call.op = "add_animation" =>
           \A i \in 1..Len(pre.animations) :
               pre.animations[i].is_compressed => animations[i] = pre.animations[i]
    /\ call.op # "add_animation" =>
           \A j \in 1..Len(animations) :
               \E i \in 1..Len(pre.animations) : animations[j] = pre.animations[i]

\* A later add_animation met an instance that had already been shrunk and
\* was playing.
C3_Witness ==
    /\ Accepted
    /\ Len(pre.animations) >= 1
    /\ pre.animations[1].is_compressed
    /\ pre.animations[1].max_compression < 100
    /\ InFlight(pre.animations[1], call.time)

\* Number of instances among the first n of queue that end at time or later.
KeptUpTo(queue, n, time) ==
    Cardinality({ k \in 1..n : EndTime(queue[k]) >= time })

\* C5: update(now) drops exactly the instances that end before now, keeps
\* the others in order and unchanged, and leaves the idle fields alone.
C5_UpdateRemovesExpired ==
    call.op = "update" =>
        /\ Len(animations) = KeptUpTo(pre.animations, Len(pre.animations), call.time)
        /\ \A i \in 1..Len(pre.animations) :
               EndTime(pre.animations[i]) >= call.time =>
                   animations[KeptUpTo(pre.animations, i, call.time)] = pre.animations[i]
        /\ idle_interval = pre.idle_interval
        /\ idle_animations = pre.idle_animations
        /\ idle_start = pre.idle_start

\* An update removed the head of the queue and kept an instance that ends
\* exactly at the update time, with an idle animation configured.
C5_Witness ==
    /\ call.op = "update"
    /\ Len(pre.animations) = 2
    /\ Len(animations) = 1
    /\ EndTime(animations[1]) = call.time
    /\ idle_interval # None
    /\ idle_start # None

\* C4: a second AnimationInstance::compress, at the same or a later time,
\* leaves the instance as the first call left it.
C4_CompressIdempotent ==
    (call.op = "compress" /\ pre.animations[1].is_compressed) =>
        animations[1] = pre.animations[1]

\* C4 as amended: the second call changes nothing when max_compression is
\* 100 or more.
C4_IdempotentAt100 ==
    (/\ call.op = "compress"
     /\ pre.animations[1].is_compressed
     /\ pre.animations[1].max_compression >= 100) =>
        animations[1] = pre.animations[1]

\* An instance with max_compression 100 was compressed a second time while
\* it was playing.
C4_Witness ==
    /\ call.op = "compress"
    /\ pre.animations[1].is_compressed
    /\ pre.animations[1].max_compression >= 100
    /\ InFlight(pre.animations[1], call.time)

\* C6: with a single queued instance and no idle animation, update(now)
\* then get_frame(now) gives None for every now at or after the end of the
\* instance.
C6_ExpiredIsNone ==
    (/\ call.op = "update"
     /\ Len(pre.animations) = 1
     /\ idle_animations = <<>>
     /\ call.time >= EndTime(pre.animations[1])) =>
        GetFrame(Controller, call.time).status = "none"

\* C7: get_frame(now) right after update(now), on a queue that is not
\* empty, returns the tile_id of one of the frames of element 0.
C7_SentinelUnreachable ==
    (call.op = "get_frame" /\ call.after_update /\ animations # <<>>) =>
        /\ out.status = "some"
        /\ \E j \in 1..Len(animations[1].frames) :
               out.tile_id = animations[1].frames[j].tile_id

\* C8: at the instant instance i ends and instance i+1 starts, update then
\* get_frame shows the first frame of instance i+1 at its start_position.
C8_HandOffAtBoundary ==
    call.op = "update" =>
        \A i \in 1..(Len(pre.animations) - 1) :
            (/\ call.time = EndTime(pre.animations[i])
             /\ call.time = pre.animations[i+1].animation_start) =>
                LET next  == pre.animations[i+1]
                    frame == GetFrame(Controller, call.time)
                IN /\ frame.status = "some"
                   /\ frame.tile_id = next.frames[1].tile_id
                   /\ VecEq(frame.position, << FRound(next.start_position[1]),
                                               FRound(next.start_position[2]) >>)

\* Sum of the durations of the first j frames.
PrefixSum(frames, j) == SumDurations(SubSeq(frames, 1, j))

\* The last call was a get_frame at a time inside [animation_start,
\* animation_start + duration) of element 0.
SampledInRange ==
    /\ call.op = "get_frame"
    /\ animations # <<>>
    /\ animations[1].animation_start <= call.time
    /\ call.time < EndTime(animations[1])

\* C9: inside the playing time of element 0, get_frame returns the tile_id
\* of the frame whose time slot holds now - animation_start.
C9_FrameSelection ==
    SampledInRange =>
        LET inst    == animations[1]
            elapsed == call.time - inst.animation_start
        IN /\ out.status = "some"
           /\ \E j \in 1..Len(inst.frames) :
                  /\ PrefixSum(inst.frames, j - 1) <= elapsed
                  /\ elapsed < PrefixSum(inst.frames, j)
                  /\ out.tile_id = inst.frames[j].tile_id

\* A frame other than the first one of a compressed instance was selected.
C9_Witness ==
    /\ SampledInRange
    /\ animations[1].is_compressed
    /\ animations[1].max_compression < 100
    /\ Len(animations[1].frames) >= 2
    /\ call.time > animations[1].animation_start
    /\ out.tile_id = animations[1].frames[2].tile_id

(***************************************************************************)
(* Exact arithmetic for the properties about positions.  A finite f32 x    *)
(* with at most 30 fraction bits is the exact number                        *)
(*     i + (f1 * 2^15 + f0) / 2^30                                          *)
(* with the signed integers i, f1, f0 of Exact(x).                          *)
(***************************************************************************)
Inexact == [ok |-> FALSE, i |-> 0, f1 |-> 0, f0 |-> 0]

ExactOf(sign, ip, fr) ==
    [ok |-> TRUE, i |-> sign * ip, f1 |-> sign * (fr \div 32768), f0 |-> sign * (fr % 32768)]

Exact(x) ==
    LET sign == IF x.s = 0 THEN 1 ELSE -1 IN
    IF x.k = "zero" THEN ExactOf(1, 0, 0)
    ELSE IF x.k # "num" THEN Inexact
    ELSE IF x.e >= 0
         THEN IF x.e <= 6 THEN ExactOf(sign, x.m * 2^(x.e), 0) ELSE Inexact
    ELSE IF -x.e <= 30
         THEN ExactOf(sign, x.m \div 2^(-x.e), (x.m % 2^(-x.e)) * 2^(30 + x.e))
    ELSE IF -x.e - 30 < MantBits /\ x.m % 2^(-x.e - 30) = 0
         THEN ExactOf(sign, 0, x.m \div 2^(-x.e - 30))
    ELSE Inexact

\* The exact number a*X + b*Y + c*Z + d for small integers a, b, c, d, as
\* [i, f1, f0] with 0 <= f1, f0 < 2^15.
Lin(a, X, b, Y, c, Z, d) ==
    LET f0 == a * X.f0 + b * Y.f0 + c * Z.f0
        f1 == a * X.f1 + b * Y.f1 + c * Z.f1 + (f0 \div 32768)
    IN [ i  |-> a * X.i + b * Y.i + c * Z.i + d + (f1 \div 32768),
         f1 |-> f1 % 32768,
         f0 |-> f0 % 32768 ]

LeqZero(v) == v.i < 0 \/ (v.i = 0 /\ v.f1 = 0 /\ v.f0 = 0)
GeqZero(v) == v.i >= 0

\* On one axis: p is an integer, it is a nearest integer to the f32 value x
\* that get_position rounds, and it is within 1 unit of the exact point
\* start_position + movement * elapsed / total of the segment.
AxisInterpolated(p, x, start_position, movement, elapsed, total) ==
    LET P == Exact(p)
        X == Exact(x)
        S == Exact(start_position)
        M == Exact(movement)
    IN /\ P.ok /\ X.ok /\ S.ok /\ M.ok
       /\ P.f1 = 0 /\ P.f0 = 0
       /\ LeqZero(Lin(2, P, -2, X, 0, X, -1))
       /\ GeqZero(Lin(2, P, -2, X, 0, X, 1))
       /\ LeqZero(Lin(total, P, -total, S, -elapsed, M, -total))
       /\ GeqZero(Lin(total, P, -total, S, -elapsed, M, total))

\* C10: inside the playing time of element 0, the position get_frame
\* returns is the interpolated point start_position + movement * elapsed /
\* duration rounded to an integer on each axis, within 1 unit of the segment.
C10_InterpolationBounds ==
    SampledInRange =>
        LET inst    == animations[1]
            elapsed == call.time - inst.animation_start
            xy      == InterpolatedPosition(call.time, inst)
        IN /\ out.status = "some"
           /\ \A axis \in 1..2 :
                  AxisInterpolated(out.position[axis], xy[axis],
                                   inst.start_position[axis], inst.movement[axis],
                                   elapsed, inst.duration)

\* A compressed instance that started after time 0 was sampled part of the
\* way along a movement that is not zero.
C10_Witness ==
    /\ SampledInRange
    /\ animations[1].is_compressed
    /\ animations[1].max_compression < 100
    /\ animations[1].animation_start > 0
    /\ call.time > animations[1].animation_start
    /\ animations[1].movement[1].k = "num"
    /\ ~ FEq(out.position[1], FRound(animations[1].start_position[1]))

\* The last call was an accepted add_animation(now) on a queue whose only
\* instance was uncompressed, had max_compression below 100 and was playing
\* strictly inside its time.
InFlightCompression ==
    /\ Accepted
    /\ Len(pre.animations) = 1
    /\ ~ pre.animations[1].is_compressed
    /\ pre.animations[1].max_compression < 100
    /\ InFlight(pre.animations[1], call.time)

\* Number of frames of inst that have fully played by t.
PlayedFrames(inst, t) ==
    Cardinality({ j \in 1..Len(inst.frames) :
                      inst.animation_start + PrefixSum(inst.frames, j) <= t })

\* C11: an in-flight compression restarts the instance at now, drops the
\* frames that had fully played, leaves p% of the remaining time up to a
\* loss of less than one tick per kept frame, and the appended instance
\* starts at the new end.
C11_InFlightCompression ==
    InFlightCompression =>
        LET old       == pre.animations[1]
            new       == animations[1]
            t         == call.time
            remaining == EndTime(old) - t
            dropped   == PlayedFrames(old, t)
        IN /\ new.animation_start = t
           /\ Len(new.frames) = Len(old.frames) - dropped
           /\ \A j \in 1..Len(new.frames) :
                  new.frames[j].tile_id = old.frames[j + dropped].tile_id
           /\ new.duration * 100 <= remaining * old.max_compression
           /\ remaining * old.max_compression < (new.duration + Len(new.frames)) * 100
           /\ animations[2].animation_start = t + new.duration

\* An in-flight compression dropped a played frame and lost a fraction of
\* a tick to the truncation.
C11_Witness ==
    /\ InFlightCompression
    /\ PlayedFrames(pre.animations[1], call.time) >= 1
    /\ animations[1].duration > 0
    /\ animations[1].duration * 100
           < (EndTime(pre.animations[1]) - call.time) * pre.animations[1].max_compression

\* Index of the frame of inst that straddles t, 0 when there is none.
StraddledFrame(inst, t) ==
    LET S == { j \in 1..Len(inst.frames) :
                   /\ inst.animation_start + PrefixSum(inst.frames, j - 1) < t
                   /\ t < inst.animation_start + PrefixSum(inst.frames, j) }
    IN IF S = {} THEN 0 ELSE CHOOSE j \in S : TRUE

\* The last call was a compress, on an instance with max_compression below
\* 100, that met a frame straddling current_time.
StraddlingCompress ==
    /\ call.op = "compress"
    /\ pre.animations[1].max_compression < 100
    /\ StraddledFrame(pre.animations[1], call.time) > 0

\* C12: the straddled frame is kept with its full original duration times
\* max_compression / 100.
C12_StraddledFullDuration ==
    StraddlingCompress =>
        LET old == pre.animations[1]
            j   == StraddledFrame(old, call.time)
        IN animations[1].frames[1].duration =
               (old.frames[j].duration * old.max_compression) \div 100

\* C12 as amended: the straddled frame is kept with the part of it that
\* remains after current_time times max_compression / 100.
C12_StraddledRemainingPortion ==
    StraddlingCompress =>
        LET old    == pre.animations[1]
            j      == StraddledFrame(old, call.time)
            cursor == old.animation_start + PrefixSum(old.frames, j - 1)
        IN /\ animations[1].frames[1].tile_id = old.frames[j].tile_id
           /\ animations[1].frames[1].duration =
                  ((old.frames[j].duration - (call.time - cursor))
                       * old.max_compression) \div 100

\* A compress met a straddled frame behind a played one, and the remaining
\* portion gives a shorter, non-zero frame than the full duration would.
C12_Witness ==
    /\ StraddlingCompress
    /\ StraddledFrame(pre.animations[1], call.time) >= 2
    /\ animations[1].frames[1].duration > 0
    /\ animations[1].frames[1].duration <
           (pre.animations[1].frames[StraddledFrame(pre.animations[1], call.time)].duration
                * pre.animations[1].max_compression) \div 100

\* The last call was an accepted add_animation(now) that compressed element
\* 0 while it was the playing one: animation_start <= now < end.
CompressedWhilePlaying ==
    /\ Accepted
    /\ Len(pre.animations) >= 1
    /\ ~ pre.animations[1].is_compressed
    /\ pre.animations[1].max_compression < 100
    /\ pre.animations[1].animation_start <= call.time
    /\ call.time < EndTime(pre.animations[1])

\* p and q are integers at most one unit apart.
WithinOneUnit(p, q) ==
    LET P == Exact(p)
        Q == Exact(q)
    IN /\ P.ok /\ Q.ok
       /\ P.f1 = 0 /\ P.f0 = 0 /\ Q.f1 = 0 /\ Q.f0 = 0
       /\ P.i - Q.i \in -1..1

\* C13: the position get_frame(now) reports for element 0 is the same, up
\* to the rounding of each axis, right before and right after an
\* add_animation(now) that compresses it.
C13_NoRetroactiveJump ==
    CompressedWhilePlaying =>
        \A axis \in 1..2 :
            WithinOneUnit(GetFrame(pre, call.time).position[axis],
                          GetFrame(Controller, call.time).position[axis])

\* The last call was an accepted add_animation on a queue that was not
\* empty.
AppendedToQueue == Accepted /\ Len(pre.animations) >= 1

\* C14: an instance appended to a non-empty queue starts at the end of the
\* compressed tail, keeps every frame of the template with its duration
\* times max_compression / 100 (unchanged from 100 on), has the sum of them
\* as duration, the movement of the call, and is_compressed set.
C14_AppendedInstance ==
    AppendedToQueue =>
        LET template == call.args.template
            new      == animations[Len(animations)]
            tail     == animations[Len(animations) - 1]
        IN /\ new.animation_start = EndTime(tail)
           /\ Len(new.frames) = Len(template.frames)
           /\ \A j \in 1..Len(new.frames) :
                  /\ new.frames[j].tile_id = template.frames[j].tile_id
                  /\ new.frames[j].duration =
                         IF template.max_compression >= 100
                         THEN template.frames[j].duration
                         ELSE (template.frames[j].duration
                                   * template.max_compression) \div 100
           /\ new.duration = SumDurations(new.frames)
           /\ VecEq(new.movement, call.args.movement)
           /\ new.is_compressed

\* The last call was an accepted add_animation on an empty queue.
AddedToEmpty == Accepted /\ pre.animations = <<>>

\* C15: an instance added to an empty queue starts at now with the
\* start_position and movement of the call and the frames of the template
\* at their full durations, uncompressed; and an instance that is
\* compressed after a call other than add_animation was so before it.
C15_AddToEmptyQueue ==
    /\ AddedToEmpty =>
           LET template == call.args.template
               new      == animations[1]
           IN /\ Len(animations) = 1
              /\ new.animation_start = call.time
              /\ new.start_position = call.args.start_position
              /\ new.movement = call.args.movement
              /\ new.frames = template.frames
              /\ new.duration = SumDurations(template.frames)
              /\ new.max_compression = template.max_compression
              /\ ~ new.is_compressed
    /\ call.op # "add_animation" =>
           \A j \in 1..Len(animations) :
               animations[j].is_compressed =>
                   \E i \in 1..Len(pre.animations) :
                       /\ pre.animations[i].is_compressed
                       /\ pre.animations[i] = animations[j]

\* A template with max_compression below 100 was added to a queue that had
\* emptied after earlier animations.
C15_Witness ==
    /\ AddedToEmpty
    /\ call.args.template.max_compression < 100
    /\ call.time > 0
    /\ pre.idle_start # None

\* C16: each queued instance starts at start_position + movement of the
\* one before it, and the start_position of the call is the one of an
\* instance added to an empty queue.
C16_PositionChaining ==
    /\ \A i \in 1..(Len(animations) - 1) :
           VecEq(animations[i+1].start_position, EndPosition(animations[i]))
    /\ AddedToEmpty => VecEq(animations[1].start_position, call.args.start_position)

\* C17: add_animation with a template of max_compression 0 leaves the
\* queue, the idle anchor and the idle configuration as they were; and as
\* long as nothing is queued and no add has set the idle anchor, get_frame
\* returns None.
C17_ZeroCompressionRejected ==
    /\ (call.op = "add_animation" /\ call.args.template.max_compression = 0) =>
           Controller = pre
    /\ (call.op = "get_frame" /\ pre.animations = <<>> /\ pre.idle_start = None) =>
           out.status = "none"

\* A template with max_compression 0 was offered while an uncompressed
\* instance that does compress was playing and an idle animation was set.
C17_Witness ==
    /\ call.op = "add_animation"
    /\ call.args.template.max_compression = 0
    /\ Len(pre.animations) = 1
    /\ ~ pre.animations[1].is_compressed
    /\ pre.animations[1].max_compression < 100
    /\ InFlight(pre.animations[1], call.time)
    /\ idle_interval # None

\* C18: the compress pass of an accepted add_animation only sets
\* is_compressed on an uncompressed instance with max_compression of 100
\* or more, and add_animation always queues a
\* template with max_compression of 100 or more, with its frames as they
\* are.
C18_NeverCompressAt100 ==
    /\ AppendedToQueue =>
           \A i \in 1..Len(pre.animations) :
               (/\ pre.animations[i].max_compression >= 100
                /\ ~ pre.animations[i].is_compressed) =>
                   animations[i] = [pre.animations[i] EXCEPT !.is_compressed = TRUE]
    /\ (call.op = "add_animation" /\ call.args.template.max_compression >= 100) =>
           /\ Accepted
           /\ animations[Len(animations)].frames = call.args.template.frames
           /\ animations[Len(animations)].duration =
                  SumDurations(call.args.template.frames)
           /\ animations[Len(animations)].movement = call.args.movement

\* A template with max_compression 100 was appended behind an uncompressed
\* instance with max_compression 100 that was playing.
C18_Witness ==
    /\ AppendedToQueue
    /\ call.args.template.max_compression >= 100
    /\ pre.animations[1].max_compression >= 100
    /\ ~ pre.animations[1].is_compressed
    /\ InFlight(pre.animations[1], call.time)

\* C19: the duration of every queued instance is the sum of the durations
\* of its frames.
C19_DurationIsSumOfFrames ==
    \A i \in 1..Len(animations) :
        animations[i].duration = SumDurations(animations[i].frames)

\* The head of the queue lost a frame and part of its duration to an
\* in-flight compression.
C19_Witness ==
    /\ Len(animations) = 2
    /\ animations[1].is_compressed
    /\ animations[1].max_compression < 100
    /\ Len(animations[1].frames) = 1
    /\ animations[1].duration > 0
    /\ call.op = "add_animation"
    /\ animations[1].duration < pre.animations[1].duration

\* C20: an add_animation(now) that follows update(now) on a queue whose
\* instances all have frames leaves every instance with frames.
C20_FramesNeverEmpty ==
    (/\ call.op = "add_animation"
     /\ call.after_update
     /\ \A i \in 1..Len(pre.animations) : pre.animations[i].frames # <<>>) =>
        \A i \in 1..Len(animations) : animations[i].frames # <<>>

\* The last call was an accepted add_animation whose compress pass left
\* element 0, until then uncompressed and with time to play, no duration.
CompressedToNothing ==
    /\ AppendedToQueue
    /\ ~ pre.animations[1].is_compressed
    /\ pre.animations[1].duration > 0
    /\ animations[1].duration = 0

Finite(x) == x.k \in {"zero", "num"}

\* C21: when compression leaves an instance no duration, its movement becomes
\* zero, its end position is the one it had, and get_frame at that time
\* returns a frame whose position is a number (no 0/0).
C21_ZeroDurationGuard ==
    CompressedToNothing =>
        /\ animations[1].movement[1].k = "zero"
        /\ animations[1].movement[2].k = "zero"
        /\ VecEq(EndPosition(animations[1]), EndPosition(pre.animations[1]))
        /\ GetFrame(Controller, call.time).status = "some"
        /\ Finite(GetFrame(Controller, call.time).position[1])
        /\ Finite(GetFrame(Controller, call.time).position[2])


\* The last call was a get_frame(now) on an empty queue with an idle
\* template, an idle interval and an anchor no later than now.
IdleFallback ==
    /\ call.op = "get_frame"
    /\ pre.animations = <<>>
    /\ pre.idle_interval # None
    /\ pre.idle_animations # <<>>
    /\ pre.idle_start # None
    /\ call.time >= pre.idle_start[1].start_time

\* The idle template's total duration D, the interval I and the anchor A of
\* the controller the last call started from.
IdleD == SumDurations(pre.idle_animations[1].frames)
IdleI == pre.idle_interval[1]
IdleA == pre.idle_start[1].start_time

\* now lies in [A + k (I + D) + I, A + (k + 1) (I + D)) for some k >= 0.
InIdleWindow(A, I, D, now) ==
    \E k \in 0..now :
        /\ A + k * (I + D) + I <= now
        /\ now < A + (k + 1) * (I + D)

\* C22: on an empty queue get_frame(now), now >= A, returns an idle frame
\* exactly when now lies in an idle window, and None otherwise.
C22_IdleWindows ==
    IdleFallback =>
        IF InIdleWindow(IdleA, IdleI, IdleD, call.time)
        THEN out.status = "some"
        ELSE out = NoFrame


\* The time since the start of the idle window that holds now.
IdleElapsed(A, I, D, now) == ((now - A) % (I + D)) - I

\* C23: every frame of the idle fallback has the anchor position, which is
\* the end position of the last accepted animation, and the tile_id of the
\* idle template's frame whose time slot holds the time since the start of
\* the idle window; with frames to choose from it is never the sentinel 0.
C23_IdleFramePinned ==
    /\ Accepted =>
           /\ idle_start # None
           /\ idle_start[1].position = EndPosition(animations[Len(animations)])
    /\ ~ Accepted => idle_start = pre.idle_start
    /\ (IdleFallback /\ out.status = "some") =>
           LET frames  == pre.idle_animations[1].frames
               elapsed == IdleElapsed(IdleA, IdleI, IdleD, call.time)
           IN /\ out.position = pre.idle_start[1].position
              /\ out.tile_id # 0
              /\ \E j \in 1..Len(frames) :
                     /\ PrefixSum(frames, j - 1) <= elapsed
                     /\ elapsed < PrefixSum(frames, j)
                     /\ out.tile_id = frames[j].tile_id

\* The idle fallback showed the second frame of the idle template, some
\* time after the idle window had started.
C23_Witness ==
    /\ IdleFallback
    /\ out.status = "some"
    /\ out.tile_id = 102
    /\ call.time > IdleA + IdleI


\* The last call was a get_frame on a queue that was not empty.
QueueSampled == call.op = "get_frame" /\ pre.animations # <<>>

\* C24: on a non-empty queue get_frame returns the frame of element 0, its
\* tile_id and its interpolated position, and never a frame of the idle
\* template, whether or not now lies in an idle window.
C24_IdleInterrupted ==
    QueueSampled =>
        /\ out.status = "some"
        /\ out.tile_id = GetTileId(call.time, pre.animations[1])
        /\ out.position = GetPosition(call.time, pre.animations[1])
        /\ \A i \in DOMAIN pre.idle_animations :
               \A j \in DOMAIN pre.idle_animations[i].frames :
                   out.tile_id # pre.idle_animations[i].frames[j].tile_id

\* get_frame was called on a non-empty queue at a time for which the idle
\* fallback alone would have produced an idle frame.
C24_Witness ==
    /\ QueueSampled
    /\ GetIdleAnimation(pre, call.time).status = "some"


\* C25: after set_idle_animation(T, i) the controller holds exactly one idle
\* instance, with T's frames and their sum as duration, and the interval of
\* i seconds; the idle anchor and the queue are the ones before the call.
C25_SetIdleReplaces ==
    call.op = "set_idle_animation" =>
        /\ Len(idle_animations) = 1
        /\ idle_animations[1].frames = call.args.template.frames
        /\ idle_animations[1].duration = SumDurations(call.args.template.frames)
        /\ idle_interval = Some(call.args.interval * TicksPerSec)
        /\ idle_start = pre.idle_start
        /\ animations = pre.animations

\* set_idle_animation replaced two idle instances, the first of another
\* template, and another interval, with an anchor set and a queue playing.
C25_Witness ==
    /\ call.op = "set_idle_animation"
    /\ Len(pre.idle_animations) = 2
    /\ pre.idle_animations[1].frames # call.args.template.frames
    /\ pre.idle_interval # idle_interval
    /\ call.args.interval > 0
    /\ pre.idle_start # None
    /\ pre.animations # <<>>


\* Every instance of the queue has max_compression 100.
AllFull(queue) == \A i \in DOMAIN queue : queue[i].max_compression = 100

RECURSIVE TotalDuration(_)
\* The sum of the durations of the instances of a queue.
TotalDuration(queue) ==
    IF queue = <<>> THEN 0
    ELSE Head(queue).duration + TotalDuration(Tail(queue))

\* C26: with max_compression 100 throughout, an accepted add_animation puts
\* its instance behind the ones added before, which keep their order, to
\* start when the durations of all of them have passed since the first one
\* started (the time of the call for the first one); update(t) followed by
\* get_frame(t), for t strictly inside the playing time of the i-th instance,
\* shows the frame of that instance; and the instance update leaves in front
\* is one whose predecessors have all expired.
C26_FifoPlayback ==
    /\ (Accepted /\ AllFull(animations)) =>
           LET n == Len(animations) IN
           /\ animations[n].frames = call.args.template.frames
           /\ animations[n].animation_start =
                  IF n = 1 THEN call.time
                  ELSE animations[1].animation_start
                           + TotalDuration(SubSeq(animations, 1, n - 1))
           /\ \A j \in 1..(n - 1) :
                  /\ animations[j].frames = pre.animations[j].frames
                  /\ animations[j].animation_start = pre.animations[j].animation_start
                  /\ animations[j].duration = SumDurations(pre.animations[j].frames)
    /\ (call.op = "update" /\ AllFull(pre.animations)) =>
           \A i \in DOMAIN pre.animations :
               InFlight(pre.animations[i], call.time) =>
                   LET inst    == pre.animations[i]
                       elapsed == call.time - inst.animation_start
                       shown   == GetFrame(Controller, call.time)
                   IN /\ shown.status = "some"
                      /\ shown.position = GetPosition(call.time, inst)
                      /\ \E j \in 1..Len(inst.frames) :
                             /\ PrefixSum(inst.frames, j - 1) <= elapsed
                             /\ elapsed < PrefixSum(inst.frames, j)
                             /\ shown.tile_id = inst.frames[j].tile_id
    /\ (call.op = "update" /\ animations # <<>>) =>
           \E j \in DOMAIN pre.animations :
               /\ animations[1] = pre.animations[j]
               /\ \A i \in 1..(j - 1) : EndTime(pre.animations[i]) < call.time

\* update(t) came strictly inside the playing time of the second of two
\* instances with max_compression 100 and left it in front.
C26_Witness ==
    /\ call.op = "update"
    /\ Len(pre.animations) = 2
    /\ AllFull(pre.animations)
    /\ InFlight(pre.animations[2], call.time)
    /\ animations = << pre.animations[2] >>
    /\ pre.animations[2].animation_start
           = pre.animations[1].animation_start + pre.animations[1].duration


\* load met a tile with the string name and an animation.
Registered(name) ==
    \E i \in DOMAIN tileset :
        /\ tileset[i].name = StringValue(name)
        /\ tileset[i].animation # None

\* C27: get_animation_id and get_template return None for a name that was
\* not registered; get_template(name) is Some exactly when
\* get_animation_id(name) is, and its template's gid is that id.
C27_RegistryLookups ==
    /\ call.op = "get_animation_id" =>
           (found # None <=> Registered(call.args.template))
    /\ call.op = "get_template" =>
           /\ ~ Registered(call.args.template) => found = None
           /\ found # None <=> GetAnimationId(registry[1], call.args.template) # None
           /\ found # None =>
                  found[1].gid = GetAnimationId(registry[1], call.args.template)[1]

\* get_template found a template for a name whose tile shares its id with a
\* later tile of another name.
C27_Witness ==
    /\ call.op = "get_template"
    /\ found # None
    /\ Len(tileset) = 2
    /\ tileset[1].id = tileset[2].id
    /\ tileset[1].name = StringValue(call.args.template)
    /\ found[1].name # call.args.template


\* C28: every operation returns; in particular get_frame returns, None or a
\* frame, whatever the idle interval and the idle template's duration.
C28_NoOperationBlocks ==
    call.op = "get_frame" => out.status \in {"none", "some"}


\* C29: along the queue the expiry times never decrease, and what update
\* removes is a prefix of the queue: what it leaves is the rest, in order.
C29_ExpiryMonotone ==
    /\ \A i \in 1..(Len(animations) - 1) :
           EndTime(animations[i]) <= EndTime(animations[i + 1])
    /\ call.op = "update" =>
           \E n \in 0..Len(pre.animations) :
               animations = SubSeq(pre.animations, n + 1, Len(pre.animations))

\* update removed a compressed instance and left the one queued behind it,
\* which expires later.
C29_Witness ==
    /\ call.op = "update"
    /\ Len(pre.animations) = 2
    /\ pre.animations[1].max_compression < 100
    /\ EndTime(pre.animations[1]) < call.time
    /\ call.time <= EndTime(pre.animations[2])
    /\ animations = SubSeq(pre.animations, 2, 2)


\* The last call was a get_frame(now) on a non-empty queue with
\* now - animation_start of element 0 no less than the sum of its frames'
\* durations.
Overrun ==
    /\ QueueSampled
    /\ InstantSub(call.time, pre.animations[1].animation_start)
           >= SumDurations(pre.animations[1].frames)

\* C30: a get_frame past all the frames of element 0 returns Some frame with
\* the sentinel tile_id 0.
C30_OverrunFallback ==
    Overrun => out.status = "some" /\ out.tile_id = 0

\* get_frame was called after element 0 had ended, without an update, on an
\* instance that has frames.
C30_Witness ==
    /\ Overrun
    /\ call.time > EndTime(pre.animations[1])
    /\ pre.animations[1].frames # <<>>
    /\ out.tile_id = 0


\* C31: the times of the calls never decrease; after an update(now) that
\* leaves instances, element 0 has started and has not ended before now, and
\* every later element starts no earlier than its predecessor ends.
C31_ElementZeroPlaying ==
    (call.op = "update" /\ animations # <<>>) =>
        /\ animations[1].animation_start <= call.time
        /\ call.time <= EndTime(animations[1])
        /\ \A i \in 1..(Len(animations) - 1) :
               EndTime(animations[i]) <= animations[i + 1].animation_start

\* update removed the instance in front and left the next one, which is
\* playing.
C31_Witness ==
    /\ call.op = "update"
    /\ Len(animations) >= 1
    /\ Len(pre.animations) > Len(animations)
    /\ animations[1].animation_start < call.time
    /\ call.time < EndTime(animations[1])


\* C32: when no add_animation is accepted any more and update goes on being
\* called with growing times, the queue is empty from some time on, and with
\* no idle animation configured every get_frame from then on returns None.
C32_QueueDrains ==
    <>[](/\ animations = <<>>
         /\ call.op = "get_frame" => out = NoFrame)

\* update has emptied a queue of two instances after the last add_animation,
\* and the get_frame that follows returns None.
C32_Witness ==
    /\ call.op = "get_frame"
    /\ call.after_update
    /\ clock > MaxTime
    /\ idle_start # None
    /\ animations = <<>>
    /\ out = NoFrame


\* C33: in a queue of two or more instances every instance is compressed;
\* an instance that is not compressed is the only one of the queue, and was
\* added to an empty queue.
C33_UncompressedAlone ==
    /\ Len(animations) >= 2 =>
           \A i \in DOMAIN animations : animations[i].is_compressed
    /\ \A i \in DOMAIN animations :
           ~ animations[i].is_compressed => Len(animations) = 1
    /\ (Accepted /\ ~ animations[Len(animations)].is_compressed) =>
           pre.animations = <<>>

\* add_animation met a single instance that was not compressed and left two
\* compressed ones, the first with max_compression 100.
C33_Witness ==
    /\ Accepted
    /\ Len(pre.animations) = 1
    /\ ~ pre.animations[1].is_compressed
    /\ pre.animations[1].max_compression = 100
    /\ Len(animations) = 2
    /\ animations[1].is_compressed
    /\ animations[2].is_compressed


\* The last call was an add_animation of a template with max_compression 0.
RejectedAdd == call.op = "add_animation" /\ call.args.template.max_compression = 0

\* C34: while the queue is not empty the idle anchor is the end time and the
\* end position of its last instance; update and a rejected add_animation
\* leave the anchor as it was.
C34_AnchorTracksTail ==
    /\ animations # <<>> =>
           LET tail == animations[Len(animations)] IN
           /\ idle_start # None
           /\ idle_start[1].start_time = tail.animation_start + tail.duration
           /\ idle_start[1].position =
                  << FAdd(tail.start_position[1], tail.movement[1]),
                     FAdd(tail.start_position[2], tail.movement[2]) >>
    /\ (call.op = "update" \/ RejectedAdd) => idle_start = pre.idle_start

\* update has removed the last instances of the queue, the last of them
\* compressed, and the anchor is still the end of that one.
C34_Witness ==
    /\ call.op = "update"
    /\ animations = <<>>
    /\ Len(pre.animations) = 2
    /\ pre.animations[2].max_compression < 100
    /\ idle_start # None
    /\ idle_start[1].start_time = EndTime(pre.animations[2])
    /\ idle_start[1].position = EndPosition(pre.animations[2])


\* C35: as long as no add_animation has been accepted the anchor is unset and
\* the queue empty, and get_frame returns None, whatever idle template and
\* interval are configured.
C35_NoIdleBeforeFirst ==
    /\ idle_start = None => animations = <<>>
    /\ (call.op = "get_frame" /\ pre.idle_start = None) => out = NoFrame

\* get_frame was called without an anchor, with two idle instances stored,
\* the first of them with frames to play, and no interval to wait.
C35_Witness ==
    /\ call.op = "get_frame"
    /\ pre.idle_start = None
    /\ Len(pre.idle_animations) = 2
    /\ pre.idle_animations[1].duration > 0
    /\ pre.idle_interval = Some(0)
    /\ call.time > 0


\* The controller c with its first idle instance only.
FirstIdleOnly(c) == [c EXCEPT !.idle_animations = << c.idle_animations[1] >>]

\* C36: add_idle_animation(T, i) stores T behind the idle instances already
\* there and makes i seconds the interval; with more than one idle instance
\* stored, the fallback of get_frame does what it does with the first one
\* alone and the interval of the latest call, and the tile_id of an idle
\* frame is one of the first instance's frames.
C36_AddIdleAugments ==
    /\ call.op = "add_idle_animation" =>
           /\ Len(idle_animations) = Len(pre.idle_animations) + 1
           /\ \A i \in DOMAIN pre.idle_animations :
                  idle_animations[i] = pre.idle_animations[i]
           /\ idle_animations[Len(idle_animations)].frames = call.args.template.frames
           /\ idle_interval = Some(call.args.interval * TicksPerSec)
    /\ (call.op = "get_frame" /\ pre.animations = <<>>
            /\ Len(pre.idle_animations) >= 2) =>
           /\ out = GetFrame(FirstIdleOnly(pre), call.time)
           /\ out.status = "some" =>
                  \E j \in DOMAIN pre.idle_animations[1].frames :
                      out.tile_id = pre.idle_animations[1].frames[j].tile_id

\* The idle fallback produced a frame with two different idle instances
\* stored.
C36_Witness ==
    /\ IdleFallback
    /\ Len(pre.idle_animations) = 2
    /\ pre.idle_animations[1] # pre.idle_animations[2]
    /\ out.status = "some"


\* The integer a layer is ordered by: its integer yorder, or -1.
YorderOf(layer) == IF layer.kind = "int" THEN layer.val ELSE -1

RECURSIVE CycleSum(_, _, _)
\* The durations of n frames in a row, from the one at index frame, going
\* back to index 0 after the last one.
CycleSum(frames, frame, n) ==
    IF n = 0 THEN 0
    ELSE frames[frame + 1].duration
             + CycleSum(frames, (frame + 1) % Len(frames), n - 1)

\* C38: the frame index is an index of the animation's frames; update moves
\* it forward by whole frames, back to 0 after the last one, and leaves the
\* animation id alone; set_animation with the current id changes nothing;
\* set_animation with another id and reset_animation set the frame to 0.
C38_FrameInBounds ==
    sprite # None =>
        LET state  == sprite[1]
            frames == sprite_tile[1].animation.frames
        IN /\ state.frame < Len(frames)
           /\ call.op = "sprite_update" =>
                  /\ state.animation_id = call.args.before.animation_id
                  /\ \E n \in 0..(Len(frames) * (MaxTime + 1)) :
                         /\ state.frame = (call.args.before.frame + n) % Len(frames)
                         /\ state.time = call.args.before.time
                                + CycleSum(frames, call.args.before.frame, n)
           /\ (call.op = "set_animation"
                   /\ call.args.animation = call.args.before.animation_id) =>
                  state = call.args.before
           /\ (call.op = "set_animation"
                   /\ call.args.animation # call.args.before.animation_id) =>
                  state.frame = 0 /\ state.animation_id = call.args.animation
           /\ call.op = "reset_animation" =>
                  state.frame = 0 /\ state.animation_id = call.args.animation

\* update went from the last of two frames back to frame 0.
C38_Witness ==
    /\ call.op = "sprite_update"
    /\ ~ call.args.panicked
    /\ Len(sprite_tile[1].animation.frames) = 2
    /\ call.args.before.frame = 1
    /\ sprite[1].frame = 0

=============================================================================
